---- MODULE Spec2Model ----
(***************************************************************************)
(* csv_to_gee_points (src/csv_to_gee_points.py): a CSV table with a        *)
(* latitude and a longitude column is turned into one JavaScript point     *)
(* definition per data row and written to a text file.                     *)
(*                                                                         *)
(* Strings are sequences of one-character strings.  The source file is     *)
(* modelled after tokenisation: a sequence of rows, every row a sequence   *)
(* of cells.  Input domain of the model: rectangular tables whose cells    *)
(* are non-empty, are not one of pandas' missing-value tokens, and are     *)
(* pairwise different within a row; column names are not numeric.  On      *)
(* that domain read_csv keeps every cell as the string found in the file.  *)
(* The output file is the sequence of records handed to the csv writer,    *)
(* each as the characters written before the line terminator.              *)
(***************************************************************************)
EXTENDS Integers, Sequences, FiniteSets, TLC

VARIABLES
    csv_file,                \* rows of the source file, first row first
    out_file,                \* [exists, lines]: the file at path out_file
    lat_col_name,
    long_col_name,
    num_rows_before_header,
    points_col_name,         \* None or a column name
    columns,                 \* df.columns
    df,                      \* rows of df: [index |-> row label, row |-> cells]
    pc,                      \* statement of csv_to_gee_points about to run
    error,                   \* exception that ended the call, or "none"
    run,                     \* number of the current call, same arguments
    prev_out,                \* out_file as it was when the current call began
    out_index                \* row labels of the series written last

vars == <<csv_file, out_file, lat_col_name, long_col_name,
          num_rows_before_header, points_col_name, columns, df, pc, error,
          run, prev_out, out_index>>

args == <<csv_file, lat_col_name, long_col_name, num_rows_before_header,
          points_col_name>>

----------------------------------------------------------------------------
\* Bounds of the model.

MaxSkip == 1      \* largest num_rows_before_header
MaxData == 2      \* largest number of rows after the header row
MaxRuns == 2      \* calls made in sequence with the same arguments

----------------------------------------------------------------------------
\* Strings.

Lat == <<"L", "a", "t">>
Long == <<"L", "o", "n", "g">>
Name == <<"N", "a", "m", "e">>
IndexCol == <<"i", "n", "d", "e", "x">>
PointsDefCol == <<"p", "o", "i", "n", "t", "s", "_", "d", "e", "f">>

None == <<>>

VarLit == <<"v", "a", "r", " ">>
VarPointLit == <<"v", "a", "r", " ", "p", "o", "i", "n", "t", "_">>
OpenLit == <<" ", "=", " ", "e", "e", ".", "G", "e", "o", "m", "e", "t", "r",
             "y", ".", "P", "o", "i", "n", "t", "(", "[">>
CommaLit == <<",">>
CloseLit == <<"]", ")", ";">>

Digits == <<"0", "1", "2", "3", "4", "5", "6", "7", "8", "9">>

RECURSIVE Str(_)
Str(i) ==
    IF i < 10 THEN <<Digits[i + 1]>>
    ELSE Str(i \div 10) \o <<Digits[(i % 10) + 1]>>

----------------------------------------------------------------------------
\* Inputs.

ColNames == {Lat, Long, Name, IndexCol, PointsDefCol}

Headers ==
    { <<Lat, Long, Name>>,
      <<IndexCol, Long, PointsDefCol>> }

ValueRows ==
    { << <<"4", ",", "5">>, <<"7", ".", "2">>, <<"a", ",", "b">> >>,
      << <<"1", ",", "2", ",", "3">>, <<"q", "\"">>, <<"\\", "\n">> >> }

JunkRow == << <<"x">>, <<"y">>, <<"z">> >>

RowsAfterHeader ==
    UNION { [1..n -> ValueRows \cup Headers] : n \in 0..MaxData }

File(k, header, rows) == [i \in 1..k |-> JunkRow] \o <<header>> \o rows

NoFile == [exists |-> FALSE, lines |-> <<>>]
StaleFile == [exists |-> TRUE, lines |-> << <<"o", "l", "d">> >>]

Range(f) == { f[i] : i \in DOMAIN f }

----------------------------------------------------------------------------
\* pandas operations used by the program.

\* pd.read_csv(csv_file, sep=sep): the first row names the columns, every
\* later row is a row of the frame, labelled 0, 1, 2, ...
ReadCsvColumns(file) == file[1]

ReadCsvRows(file) ==
    [j \in 1..(Len(file) - 1) |-> [index |-> j - 1, row |-> file[j + 1]]]

\* df.iloc[i]: position i counted from the end when i is negative.
IlocPos(d, i) == IF i < 0 THEN Len(d) + i ELSE i

IlocInBounds(d, i) == IlocPos(d, i) >= 0 /\ IlocPos(d, i) < Len(d)

Iloc(d, i) == d[IlocPos(d, i) + 1]

HeaderPos(k) == k - 1

\* df.iloc[k + 1:], one row too many dropped
IlocFromNext(d, k) == SubSeq(d, k + 2, Len(d))

\* df.iloc[k:]
IlocFrom(d, k) == SubSeq(d, k + 1, Len(d))

HasCol(cols, name) == \E p \in 1..Len(cols) : cols[p] = name

ColPos(cols, name) == CHOOSE p \in 1..Len(cols) : cols[p] = name

\* df[name]
GetCol(d, cols, name) == [i \in 1..Len(d) |-> d[i].row[ColPos(cols, name)]]

\* df[name] = series: overwrites the column called name, or appends one.
SetColNames(cols, name) == IF HasCol(cols, name) THEN cols ELSE Append(cols, name)

SetColRows(d, cols, name, series) ==
    [i \in 1..Len(d) |->
        [index |-> d[i].index,
         row |-> IF HasCol(cols, name)
                 THEN [p \in 1..Len(cols) |->
                          IF cols[p] = name THEN series[i] ELSE d[i].row[p]]
                 ELSE Append(d[i].row, series[i])]]

----------------------------------------------------------------------------
\* Helpers of the program.

ReplaceCommaWithDot(s) ==
    [i \in 1..Len(s) |-> IF s[i] = "," THEN "." ELSE s[i]]

replace_comma_with_dot_in_col(d, cols, col_name) ==
    [i \in 1..Len(d) |-> ReplaceCommaWithDot(GetCol(d, cols, col_name)[i])]

get_second_part_of_def(d, cols, lat, long) ==
    [i \in 1..Len(d) |->
        OpenLit \o GetCol(d, cols, long)[i] \o CommaLit
                \o GetCol(d, cols, lat)[i] \o CloseLit]

\* the row labels of the frame in place of np.arange(len(df))
IndexLabelsOfFrame(d) == [i \in 1..Len(d) |-> Str(d[i].index)]

IndexLabels(d) == [i \in 1..Len(d) |-> Str(i - 1)]

\* a writer that knows no quote character
NeedsEscapeNoQuote(c) == c \in {"\\", "\n"}

\* csv.writer with quoting=QUOTE_NONE, escapechar='\\', delimiter='\n' and the
\* default quotechar: the escape character is put before each of them.
NeedsEscape(c) == c \in {"\\", "\"", "\n"}

RECURSIVE EscapeField(_)
EscapeField(s) ==
    IF s = <<>> THEN <<>>
    ELSE (IF NeedsEscape(Head(s)) THEN <<"\\", Head(s)>> ELSE <<Head(s)>>)
         \o EscapeField(Tail(s))

\* the path opened for appending
OpenedForAppending(f) == f.lines

\* to_csv opens the path for writing, which empties an existing file.
OpenedForWriting(f) == <<>>

ToCsv(f, series) ==
    [exists |-> TRUE,
     lines |-> OpenedForWriting(f)
               \o [i \in 1..Len(series) |-> EscapeField(series[i])]]

----------------------------------------------------------------------------
\* The call, statement by statement.

Init ==
    /\ num_rows_before_header \in 0..MaxSkip
    /\ csv_file \in { File(num_rows_before_header, h, r) :
                        h \in Headers, r \in RowsAfterHeader }
    /\ lat_col_name \in ColNames
    /\ long_col_name \in ColNames \ {lat_col_name}
    /\ points_col_name \in ColNames \cup {None}
    /\ out_file \in {NoFile, StaleFile}
    /\ prev_out = out_file
    /\ columns = <<>>
    /\ df = <<>>
    /\ pc = "read_csv"
    /\ error = "none"
    /\ run = 1
    /\ out_index = <<>>

Raise(e) ==
    /\ pc' = "failed"
    /\ error' = e

Goto(l) ==
    /\ pc' = l
    /\ error' = error

\* line 33
ReadCsv ==
    /\ pc = "read_csv"
    /\ columns' = ReadCsvColumns(csv_file)
    /\ df' = ReadCsvRows(csv_file)
    /\ Goto("set_columns")
    /\ UNCHANGED <<args, out_file, run, prev_out, out_index>>

\* line 34
SetColumns ==
    /\ pc = "set_columns"
    /\ IF IlocInBounds(df, HeaderPos(num_rows_before_header))
       THEN /\ columns' = Iloc(df, HeaderPos(num_rows_before_header)).row
            /\ Goto("drop_rows")
       ELSE /\ Raise("IndexError")
            /\ UNCHANGED columns
    /\ UNCHANGED <<args, out_file, df, run, prev_out, out_index>>

\* line 36
DropRows ==
    /\ pc = "drop_rows"
    /\ df' = IlocFrom(df, num_rows_before_header)
    /\ Goto("replace_lat")
    /\ UNCHANGED <<args, out_file, columns, run, prev_out, out_index>>

ReplaceIn(col_name, next) ==
    IF HasCol(columns, col_name)
    THEN /\ df' = SetColRows(df, columns, col_name,
                     replace_comma_with_dot_in_col(df, columns, col_name))
         /\ Goto(next)
    ELSE /\ Raise("KeyError")
         /\ UNCHANGED df

\* line 38
ReplaceLat ==
    /\ pc = "replace_lat"
    /\ ReplaceIn(lat_col_name, "replace_long")
    /\ UNCHANGED <<args, out_file, columns, run, prev_out, out_index>>

\* line 39
ReplaceLong ==
    /\ pc = "replace_long"
    /\ ReplaceIn(long_col_name, "define")
    /\ UNCHANGED <<args, out_file, columns, run, prev_out, out_index>>

Concat3(a, series, b) == [i \in 1..Len(series) |-> a \o series[i] \o b[i]]

\* lines 43-46
DefineNamed ==
    /\ pc = "define"
    /\ points_col_name # None
    /\ IF HasCol(columns, points_col_name)
       THEN /\ df' = SetColRows(df, columns, PointsDefCol,
                        Concat3(VarLit, GetCol(df, columns, points_col_name),
                                get_second_part_of_def(df, columns,
                                    lat_col_name, long_col_name)))
            /\ columns' = SetColNames(columns, PointsDefCol)
            /\ Goto("to_csv")
       ELSE /\ Raise("KeyError")
            /\ UNCHANGED <<df, columns>>
    /\ UNCHANGED <<args, out_file, run, prev_out, out_index>>

\* lines 47-51
DefineIndexed ==
    /\ pc = "define"
    /\ points_col_name = None
    /\ LET cols1 == SetColNames(columns, IndexCol)
           df1 == SetColRows(df, columns, IndexCol, IndexLabels(df))
       IN /\ df' = SetColRows(df1, cols1, PointsDefCol,
                      Concat3(VarPointLit, GetCol(df1, cols1, IndexCol),
                              get_second_part_of_def(df1, cols1,
                                  lat_col_name, long_col_name)))
          /\ columns' = SetColNames(cols1, PointsDefCol)
    /\ Goto("to_csv")
    /\ UNCHANGED <<args, out_file, run, prev_out, out_index>>

\* lines 53-61
WriteCsv ==
    /\ pc = "to_csv"
    /\ out_file' = ToCsv(out_file, GetCol(df, columns, PointsDefCol))
    /\ out_index' = [i \in 1..Len(df) |-> df[i].index]
    /\ Goto("done")
    /\ UNCHANGED <<args, columns, df, run, prev_out>>

\* the same call made again once the previous one has returned or raised
CallAgain ==
    /\ pc \in {"done", "failed"}
    /\ run < MaxRuns
    /\ run' = run + 1
    /\ prev_out' = out_file
    /\ columns' = <<>>
    /\ df' = <<>>
    /\ out_index' = <<>>
    /\ pc' = "read_csv"
    /\ error' = "none"
    /\ UNCHANGED <<args, out_file>>

Next ==
    \/ ReadCsv
    \/ SetColumns
    \/ DropRows
    \/ ReplaceLat
    \/ ReplaceLong
    \/ DefineNamed
    \/ DefineIndexed
    \/ WriteCsv
    \/ CallAgain

Spec == Init /\ [][Next]_vars

----------------------------------------------------------------------------
\* What the claims speak about, read off the arguments of the call.

\* The row of the source with exactly num_rows_before_header rows before it.
HeaderRow == csv_file[num_rows_before_header + 1]

NumDataRows == Len(csv_file) - (num_rows_before_header + 1)

\* The i-th row after the header row.
DataRow(i) == csv_file[num_rows_before_header + 1 + i]

InHeader(name) == \E p \in 1..Len(HeaderRow) : HeaderRow[p] = name

\* The source value of the i-th data row in the column the header calls name.
SourceValue(i, name) ==
    DataRow(i)[CHOOSE p \in 1..Len(HeaderRow) : HeaderRow[p] = name]

RECURSIVE Dotted(_)
Dotted(s) ==
    IF s = <<>> THEN <<>>
    ELSE <<IF Head(s) = "," THEN "." ELSE Head(s)>> \o Dotted(Tail(s))

StartsWith(s, t) == Len(t) <= Len(s) /\ SubSeq(s, 1, Len(t)) = t

EndsWith(s, t) ==
    Len(t) <= Len(s) /\ SubSeq(s, Len(s) - Len(t) + 1, Len(s)) = t

PointLit == <<"p", "o", "i", "n", "t", "_">>

\* The lines as assembled: the points_def column that is handed to the writer.
Assembled == GetCol(df, columns, PointsDefCol)

Finished == pc = "done"

ColumnsConfigured ==
    /\ InHeader(lat_col_name)
    /\ InHeader(long_col_name)
    /\ points_col_name # None => InHeader(points_col_name)

\* [<longitude>,<latitude>]); of the i-th data row
PointOf(i) ==
    OpenLit \o Dotted(SourceValue(i, long_col_name)) \o CommaLit
            \o Dotted(SourceValue(i, lat_col_name)) \o CloseLit

\* The synthesized index column replaces a latitude or longitude column.
IndexClobbers ==
    points_col_name = None /\ IndexCol \in {lat_col_name, long_col_name}

----------------------------------------------------------------------------
\* C1: for every offset k >= 0 the column names are those of the source row
\* with exactly k rows before it, that row and the rows before it are
\* discarded, and exactly the rows after it are the data rows.
C1_HeaderAtOffset ==
    /\ error # "IndexError"
    /\ pc = "replace_lat" =>
          /\ columns = HeaderRow
          /\ [i \in 1..Len(df) |-> df[i].row]
                = SubSeq(csv_file, num_rows_before_header + 2, Len(csv_file))

\* C1 restricted to k >= 1, where the program does what C1 says.
C1_PositiveOffset == num_rows_before_header >= 1 => C1_HeaderAtOffset

----------------------------------------------------------------------------
----------------------------------------------------------------------------
\* C3: every assembled line is var <label> = ee.Geometry.Point([<lon>,<lat>]);
\* with <lon> and <lat> that row's values of the configured longitude and
\* latitude columns (decimal commas as dots), longitude first.
C3_LongitudeThenLatitude ==
    (Finished /\ ColumnsConfigured) =>
        \A i \in 1..NumDataRows :
            /\ i <= Len(Assembled)
            /\ StartsWith(Assembled[i], VarLit)
            /\ EndsWith(Assembled[i], PointOf(i))

\* C3 at the offsets k >= 1, where the header is the row C1 names: every
\* assembled line ends with [<lon>,<lat>]); holding that row's values of the
\* configured longitude and latitude columns, whatever the columns are called.
C3_AtPositiveOffset == num_rows_before_header >= 1 => C3_LongitudeThenLatitude

\* C3 where the header is resolved as C1 says and no working column replaces
\* a coordinate column.
C3_IntactColumns ==
    (num_rows_before_header >= 1 /\ ~IndexClobbers) => C3_LongitudeThenLatitude

----------------------------------------------------------------------------
----------------------------------------------------------------------------
\* C5: with a label column configured the label of every line is the row's
\* source value of that column, unchanged, also when it holds a comma or
\* when the label column is the latitude or longitude column.
C5_LabelVerbatim ==
    (Finished /\ ColumnsConfigured /\ points_col_name # None) =>
        \A i \in 1..NumDataRows :
            /\ i <= Len(Assembled)
            /\ StartsWith(Assembled[i],
                   VarLit \o SourceValue(i, points_col_name) \o OpenLit)

\* C5 at the offsets k >= 1, where the header is the row C1 names: the label
\* of every line is the row's source value of the label column, unchanged,
\* also when that column is the latitude or longitude column.
C5_AtPositiveOffset == num_rows_before_header >= 1 => C5_LabelVerbatim

\* C5 where the header is resolved as C1 says and the label column is
\* neither coordinate column.
C5_SeparateLabelColumn ==
    (/\ num_rows_before_header >= 1
     /\ points_col_name \notin {lat_col_name, long_col_name})
        => C5_LabelVerbatim

----------------------------------------------------------------------------
\* C6: the latitude and longitude emitted are the source values with every
\* comma replaced by a dot, and the normalization alters no other column.
C6_CommasToDots ==
    /\ (pc = "define" /\ ColumnsConfigured) =>
          \A i \in 1..NumDataRows : \A p \in 1..Len(HeaderRow) :
              /\ i <= Len(df)
              /\ HeaderRow[p] \notin {lat_col_name, long_col_name}
                    => df[i].row[p] = DataRow(i)[p]
    /\ (Finished /\ ColumnsConfigured) =>
          \A i \in 1..NumDataRows :
              /\ i <= Len(Assembled)
              /\ EndsWith(Assembled[i], PointOf(i))

\* C6 at the offsets k >= 1, where the header is the row C1 names: the
\* coordinates emitted are the source values with commas replaced by dots,
\* and no other column is altered by the normalization.
C6_AtPositiveOffset == num_rows_before_header >= 1 => C6_CommasToDots

\* C6 where the header is resolved as C1 says and no working column replaces
\* a coordinate column.
C6_IntactColumns ==
    (num_rows_before_header >= 1 /\ ~IndexClobbers) => C6_CommasToDots

----------------------------------------------------------------------------
\* C7: a configured latitude, longitude or label column that the header does
\* not have ends the call with a missing-column error, and the output path
\* is as it was before the call.
C7_MissingColumn ==
    ~ColumnsConfigured =>
        /\ pc # "done"
        /\ out_file = prev_out
        /\ pc = "failed" => error = "KeyError"

\* C7 where the header is resolved as C1 says.
C7_PositiveOffset == num_rows_before_header >= 1 => C7_MissingColumn

----------------------------------------------------------------------------
RECURSIVE WrittenFor(_, _)
WrittenFor(a, w) ==
    IF a = <<>> THEN w = <<>>
    ELSE IF Head(a) \in {"\\", "\"", "\n"}
         THEN /\ Len(w) >= 2
              /\ w[1] = "\\"
              /\ w[2] = Head(a)
              /\ WrittenFor(Tail(a), SubSeq(w, 3, Len(w)))
         ELSE /\ Len(w) >= 1
              /\ w[1] = Head(a)
              /\ WrittenFor(Tail(a), Tail(w))

----------------------------------------------------------------------------
\* C9: a second call with the same arguments leaves the file the first call
\* left; a call overwrites the whole file, whatever was at the path before.
C9_SecondRunSameFile ==
    /\ (run >= 2 /\ pc \in {"done", "failed"}) => out_file = prev_out
    /\ Finished =>
          /\ Len(out_file.lines) = NumDataRows
          /\ \A i \in 1..Len(out_file.lines) :
                out_file.lines[i] \notin { l : l \in Range(StaleFile.lines) }

C9_Witness ==
    /\ run = 2
    /\ Finished
    /\ Len(out_file.lines) >= 1

----------------------------------------------------------------------------
\* C10: the working columns index and points_def never change what is
\* emitted, also when a configured column has one of these names: the
\* coordinates and the label of every line are still the source values of
\* the configured columns.
C10_WorkingColumnsHarmless ==
    (Finished /\ ColumnsConfigured) =>
        \A i \in 1..NumDataRows :
            /\ i <= Len(Assembled)
            /\ EndsWith(Assembled[i], PointOf(i))
            /\ points_col_name # None =>
                  \/ StartsWith(Assembled[i],
                        VarLit \o SourceValue(i, points_col_name) \o OpenLit)
                  \/ StartsWith(Assembled[i],
                        VarLit \o Dotted(SourceValue(i, points_col_name))
                               \o OpenLit)

\* C10 at the offsets k >= 1, where the header is the row C1 names: the
\* coordinates and label emitted are the source values of the configured
\* columns, also when such a column is called index or points_def.
C10_AtPositiveOffset == num_rows_before_header >= 1 => C10_WorkingColumnsHarmless

\* C10 for the points_def column alone, with the header resolved as C1 says.
C10_PointsDefHarmless ==
    (num_rows_before_header >= 1 /\ ~IndexClobbers) => C10_WorkingColumnsHarmless

====
